---- MODULE Spec2Model ----
(***************************************************************************)
(* Model of src/python.py: a Streamlit script that loads a three-column    *)
(* balance sheet, computes growth and composition percentages              *)
(* (process_financial_data), the current ratio of both periods             *)
(* (calculate_financial_ratios), asks Gemini for a narrative               *)
(* (get_ai_analysis) and renders a dashboard.                              *)
(*                                                                         *)
(* Labels are sequences of words; str.contains is a contiguous-subsequence *)
(* search on case-folded words.  Floating-point numbers are exact          *)
(* fractions n/d scaled by (10^9)^k, so that a division by the epsilon     *)
(* 1e-9 stays representable; d = 0 stands for inf/nan.  The arithmetic is   *)
(* written as functions, which take their arguments by value.              *)
(***************************************************************************)
EXTENDS Integers, Sequences, FiniteSets, TLC

VARIABLES
    uploaded_file,  \* TRUE when the uploader widget holds a file
    file,           \* the content of the uploaded spreadsheet
    pc,             \* position of the script in the current run
    df_raw,         \* rows read by pd.read_excel
    df_processed,   \* result of process_financial_data: [kind, rows]
    ratios,         \* result of calculate_financial_ratios
    api_key,        \* st.secrets.get("GEMINI_API_KEY")
    clicked,        \* what st.button returned in this run
    ai_result,      \* what get_ai_analysis returned
    exc,            \* exception propagating to the top-level handler
    ui,             \* elements rendered in this run, in order
    requests,       \* generate_content calls made in this run
    failures,       \* exceptions raised in this run, in order
    sent,           \* prompts built in the session: [df, ratios, key, prompt]
    runs            \* script runs started in the session

vars == <<uploaded_file, file, pc, df_raw, df_processed, ratios, api_key,
          clicked, ai_result, exc, ui, requests, failures, sent, runs>>

(***************************************************************************)
(* Bounds.                                                                 *)
(***************************************************************************)
\* Script runs in one session.
MaxRuns == 2

\* Cells of the calculation sheets hold 0, 2500, ..., 2500 * MaxAmount.
MaxAmount == 2

Amounts == {2500 * a : a \in 0..MaxAmount}

(***************************************************************************)
(* Floating-point numbers.                                                 *)
(***************************************************************************)
\* Euclid's algorithm.
GCD[a \in Nat, b \in Nat] == IF b = 0 THEN a ELSE GCD[b, a % b]

Abs(i) == IF i < 0 THEN 0 - i ELSE i

Sign(i) == IF i < 0 THEN 0 - 1 ELSE IF i = 0 THEN 0 ELSE 1

\* n/d * (10^9)^k in lowest terms; d = 0 is inf (n # 0) or nan (n = 0).
Norm[n \in Int, d \in Int, k \in Int] ==
    IF d = 0 THEN [n |-> Sign(n), d |-> 0, k |-> 0]
    ELSE IF n = 0 THEN [n |-> 0, d |-> 1, k |-> 0]
    ELSE LET g == GCD[Abs(n), Abs(d)]
         IN  [n |-> (Sign(d) * n) \div g, d |-> Abs(d) \div g, k |-> k]

\* The numbers: a fraction and its power of 10^9.
Num == [n : Int, d : Nat, k : Int]

FromInt(i) == Norm[i, 1, 0]

Zero == FromInt(0)

\* The literal 1e-9 of lines 49 and 63-68.
Epsilon == [n |-> 1, d |-> 1, k |-> 0 - 1]

IsFinite(x) == x.d # 0

FloatSub[x \in Num, y \in Num] ==
    IF y.n = 0 THEN x
    ELSE IF x.n = 0 THEN Norm[0 - y.n, y.d, y.k]
    ELSE Norm[x.n * y.d - y.n * x.d, x.d * y.d, x.k]

FloatAdd[x \in Num, y \in Num] ==
    IF y.n = 0 THEN x
    ELSE IF x.n = 0 THEN y
    ELSE Norm[x.n * y.d + y.n * x.d, x.d * y.d, x.k]

FloatMul[x \in Num, y \in Num] == Norm[x.n * y.n, x.d * y.d, x.k + y.k]

\* Series division: a zero divisor gives inf or nan, never an exception.
FloatDiv[x \in Num, y \in Num] ==
    IF y.n = 0 THEN Norm[x.n, 0, 0]
    ELSE Norm[x.n * y.d, x.d * y.n, x.k - y.k]

\* Variant: the replace() is left out and a zero divisor stays zero.
ReplaceZero_Missing(x) == x

\* Series.replace(0, 1e-9) applied to one element.
ReplaceZero(x) == IF x.n = 0 /\ x.d # 0 THEN Epsilon ELSE x

\* Python's "x or 1e-9" on a number.
OrEpsilon(x) == IF x.n = 0 /\ x.d # 0 THEN Epsilon ELSE x

(***************************************************************************)
(* Labels and str.contains.                                                *)
(***************************************************************************)
LowerOf ==
    ("TỔNG" :> "tổng") @@ ("CỘNG" :> "cộng") @@ ("TÀI" :> "tài") @@
    ("SẢN" :> "sản") @@ ("NGUỒN" :> "nguồn") @@ ("VỐN" :> "vốn") @@
    ("NGẮN" :> "ngắn") @@ ("HẠN" :> "hạn") @@ ("NỢ" :> "nợ") @@
    ("Doanh" :> "doanh") @@ ("Lợi" :> "lợi") @@ ("Hàng" :> "hàng") @@
    ("Tài" :> "tài") @@ ("Tổng" :> "tổng")

\* case=False: both sides are compared case-folded.
Fold(w) == IF w \in DOMAIN LowerOf THEN LowerOf[w] ELSE w

\* pattern occurs in label as a contiguous run of words.
Contains(label, pattern) ==
    \E i \in 0..(Len(label) - Len(pattern)) :
        \A j \in 1..Len(pattern) : Fold(label[i + j]) = Fold(pattern[j])

TONG_CONG_TAI_SAN == <<"TỔNG", "CỘNG", "TÀI", "SẢN">>
TONG_TAI_SAN == <<"TỔNG", "TÀI", "SẢN">>
TONG_CONG_NGUON_VON == <<"TỔNG", "CỘNG", "NGUỒN", "VỐN">>
TONG_NGUON_VON == <<"TỔNG", "NGUỒN", "VỐN">>
TAI_SAN_NGAN_HAN == <<"TÀI", "SẢN", "NGẮN", "HẠN">>
NO_NGAN_HAN == <<"NỢ", "NGẮN", "HẠN">>
DOANH_THU_BAN_HANG == <<"Doanh", "thu", "bán", "hàng">>
LOI_NHUAN_SAU_THUE == <<"Lợi", "nhuận", "sau", "thuế">>

\* The regex 'TỔNG CỘNG TÀI SẢN|TỔNG TÀI SẢN' of lines 55 and 224: its
\* alternatives.
TongTaiSan == {TONG_CONG_TAI_SAN, TONG_TAI_SAN}

\* The regex 'TỔNG CỘNG NGUỒN VỐN|TỔNG NGUỒN VỐN' of line 56.
TongNguonVon == {TONG_CONG_NGUON_VON, TONG_NGUON_VON}

\* str.contains with a pattern of alternatives.
Matches(label, alternatives) == \E p \in alternatives : Contains(label, p)

\* df[mask]: the rows whose label matches, in table order.
SelectRows(rows, alternatives) ==
    SelectSeq(rows, LAMBDA r : Matches(r.label, alternatives))

\* Variant: .iloc[-1], the last match.
First_Last(rows) == rows[Len(rows)]

\* .iloc[0] of a selection known to be non-empty.
First(rows) == rows[1]

(***************************************************************************)
(* process_financial_data (lines 30-74).                                   *)
(***************************************************************************)
\* A raw cell is a number or something pd.to_numeric cannot read.
NumCell(v) == [num |-> TRUE, v |-> v]
TextCell == [num |-> FALSE, v |-> 0]

\* pd.to_numeric(errors='coerce').fillna(0) on one cell (line 44).
ToNumeric(cell) == IF cell.num THEN FromInt(cell.v) ELSE Zero

\* Line 44 for both numeric columns.
Coerce(rows) ==
    [i \in 1..Len(rows) |->
        [label |-> rows[i].label,
         truoc |-> ToNumeric(rows[i].truoc),
         sau   |-> ToNumeric(rows[i].sau)]]

Hundred == FromInt(100)

\* Lines 48-50: ((sau - truoc) / truoc.replace(0, 1e-9)) * 100.
TangTruong(truoc, sau) ==
    FloatMul[FloatDiv[FloatSub[sau, truoc], ReplaceZero(truoc)], Hundred]

\* Lines 71-72: 100 * value / total.
TyTrong(value, total) == FloatDiv[FloatMul[Hundred, value], total]

\* Variant: the prior-year divisor is taken from the
\* total-liabilities-and-equity row.
TongTaiSanTruoc_WrongAnchor(rows) ==
    OrEpsilon(First(SelectRows(rows, TongNguonVon)).truoc)

\* Lines 63-64: the divisors of the two composition columns.
TongTaiSanTruoc(rows) ==
    OrEpsilon(First(SelectRows(rows, TongTaiSan)).truoc)

TongTaiSanSau(rows) ==
    OrEpsilon(First(SelectRows(rows, TongTaiSan)).sau)

\* Lines 67-68: computed, never used afterwards.
TongNguonVonTruoc(rows) ==
    OrEpsilon(First(SelectRows(rows, TongNguonVon)).truoc)

TongNguonVonSau(rows) ==
    OrEpsilon(First(SelectRows(rows, TongNguonVon)).sau)

NoResult(kind, e, msgs) == [kind |-> kind, exc |-> e, rows |-> <<>>, ui |-> msgs]

\* The whole function.  kind is "df" (a table is returned), "None" or
\* "raise" (exc propagates to the caller).
process_financial_data(f) ==
    IF f.ncols # 3 THEN
        \* line 39: Length mismatch
        NoResult("raise", "ValueError", <<>>)
    ELSE IF ~f.strLabels THEN
        \* line 55: the .str accessor needs string values
        NoResult("raise", "AttributeError", <<>>)
    ELSE
        LET rows == Coerce(f.rows)
        IN  IF SelectRows(rows, TongTaiSan) = <<>>
               \/ SelectRows(rows, TongNguonVon) = <<>>
            THEN NoResult("None", "", <<"error:missing_total">>)
            ELSE
                [kind |-> "df",
                 exc  |-> "",
                 ui   |-> <<>>,
                 rows |->
                    [i \in 1..Len(rows) |->
                        [label |-> rows[i].label,
                         truoc |-> rows[i].truoc,
                         sau   |-> rows[i].sau,
                         tang_truong |-> TangTruong(rows[i].truoc, rows[i].sau),
                         ty_trong_truoc |->
                            TyTrong(rows[i].truoc, TongTaiSanTruoc(rows)),
                         ty_trong_sau |->
                            TyTrong(rows[i].sau, TongTaiSanSau(rows))]]]

(***************************************************************************)
(* calculate_financial_ratios (lines 76-110).                              *)
(***************************************************************************)
\* The plain patterns of lines 88, 89, 225 and 226.
TaiSanNganHan == {TAI_SAN_NGAN_HAN}

NoNganHan == {NO_NGAN_HAN}

DoanhThuBanHang == {DOANH_THU_BAN_HANG}

LoiNhuanSauThue == {LOI_NHUAN_SAU_THUE}

\* A Python value held in the ratios dict: the string 'N/A' or a number.
PyStr(s) == [t |-> "str", s |-> s, x |-> Zero]
PyNum(x) == [t |-> "num", s |-> "", x |-> x]

\* Lines 102-103: a / b if b != 0 else 0.
CurrentRatio(a, b) == IF b.n # 0 THEN FloatDiv[a, b] ELSE Zero

calculate_financial_ratios(rows) ==
    LET tsnh_row  == SelectRows(rows, TaiSanNganHan)
        no_nh_row == SelectRows(rows, NoNganHan)
    IN  IF tsnh_row = <<>> \/ no_nh_row = <<>> THEN
            [truoc |-> PyStr("N/A"), sau |-> PyStr("N/A"),
             ui |-> <<"warning:missing_short_term">>]
        ELSE
            [truoc |-> PyNum(CurrentRatio(First(tsnh_row).truoc,
                                          First(no_nh_row).truoc)),
             sau   |-> PyNum(CurrentRatio(First(tsnh_row).sau,
                                          First(no_nh_row).sau)),
             ui |-> <<>>]

(***************************************************************************)
(* get_ai_analysis (lines 116-155).                                        *)
(***************************************************************************)
\* n/d rounded to an integer, ties to even (amounts of the model give no
\* tie that binary floating point would break differently).
RoundHalfEven(n, d) ==
    LET q == n \div d
        r == n % d
    IN  IF 2 * r < d THEN q
        ELSE IF 2 * r > d THEN q + 1
        ELSE IF q % 2 = 0 THEN q ELSE q + 1

\* format(v, '.2f'): the text, held as a count of hundredths.  A str has no
\* format code 'f': ValueError.
CanFormat2f(v) == v.t = "num"

Format2f(v) == RoundHalfEven(100 * v.x.n, v.x.d)

\* Line 138: the five columns handed to to_markdown, row by row.
ToMarkdown(rows) ==
    [i \in 1..Len(rows) |->
        <<rows[i].label, rows[i].truoc, rows[i].sau,
          rows[i].tang_truong, rows[i].ty_trong_sau>>]

\* Variant: the prompt also embeds the key.
BuildPrompt_WithKey(rows, r) ==
    [table |-> ToMarkdown(rows),
     truoc |-> Format2f(r.truoc),
     sau   |-> Format2f(r.sau),
     key   |-> api_key]

\* Lines 125-145: the f-string.  Its fixed text is the same in every call;
\* what varies is the table and the two formatted ratios.
BuildPrompt(rows, r) ==
    [table |-> ToMarkdown(rows),
     truoc |-> Format2f(r.truoc),
     sau   |-> Format2f(r.sau)]

\* Python's exception classes, each with its base class.
BaseOf ==
    ("ValueError" :> "Exception") @@ ("AttributeError" :> "Exception") @@
    ("IndexError" :> "LookupError") @@ ("LookupError" :> "Exception") @@
    ("InvalidArgument" :> "GoogleAPICallError") @@
    ("GoogleAPICallError" :> "Exception") @@
    ("Exception" :> "BaseException")

RECURSIVE IsInstance(_, _)
IsInstance(e, cls) ==
    IF e = cls THEN TRUE
    ELSE IF e \in DOMAIN BaseOf THEN IsInstance(BaseOf[e], cls)
    ELSE FALSE

\* Variant: one except clause and one message for every failure.
AiHandler_Generic(e) ==
    IF IsInstance(e, "Exception") THEN "error:gemini" ELSE ""

\* Lines 150-155: the message of the except clause that catches e.
AiHandler(e) ==
    IF IsInstance(e, "InvalidArgument") THEN "error:invalid_key"
    ELSE IF IsInstance(e, "Exception") THEN "error:gemini"
    ELSE ""

\* What model.generate_content / response.text may do (external service).
Outcomes ==
    { [kind |-> "text",  exc |-> "", text |-> "narrative"],
      [kind |-> "text",  exc |-> "", text |-> ""],
      [kind |-> "raise", exc |-> "InvalidArgument", text |-> ""],
      [kind |-> "raise", exc |-> "Exception", text |-> ""],
      [kind |-> "raise", exc |-> "ValueError", text |-> ""] }

NoneText == "<None>"

(***************************************************************************)
(* The main script (lines 161-277).                                        *)
(***************************************************************************)
\* Variant: only the ValueError clause.
TopLevelHandler_OnlyValueError(e) ==
    IF IsInstance(e, "ValueError") THEN "error:structure" ELSE ""

\* Lines 272-275: the message of the except clause that catches e, or ""
\* when no clause does.
TopLevelHandler(e) ==
    IF IsInstance(e, "ValueError") THEN "error:structure"
    ELSE IF IsInstance(e, "Exception") THEN "error:unexpected"
    ELSE ""

NotRead == [ncols |-> 0, strLabels |-> TRUE, rows |-> <<>>]

Unset == [kind |-> "unset", exc |-> "", rows |-> <<>>, ui |-> <<>>]

NoRatios == [truoc |-> PyStr("<unset>"), sau |-> PyStr("<unset>")]

\* st.secrets.get: a missing secret is None; "" is as falsy as None.
Keys == {"<None>", "", "key-1", "key-2"}

\* Variant: api_key is None.
Falsy_OnlyNone(s) == s = "<None>"

\* Line 210: not api_key.
Falsy(s) == s = "<None>" \/ s = ""

\* Variant: ai_result is not None.
Truthy_NotNone(text) == text # "<None>"

\* Line 217: if ai_result.
Truthy(text) == text # "<None>" /\ text # ""

\* Variant: the test is left out.
IsNotNone_Always(res) == TRUE

\* Line 184: df_processed is not None.
IsNotNone(res) == res.kind # "None"

\* Line 254: the labels isin() keeps for the pie chart (the letter d-stroke
\* is written d).
PieLabels ==
    { <<"Tiền", "và", "các", "khoản", "tương", "dương", "tiền">>,
      <<"Hàng", "tồn", "kho">>,
      <<"Các", "khoản", "phải", "thu", "ngắn", "hạn">>,
      <<"Tài", "sản", "cố", "dịnh">> }

\* Per-run state at the start of a script run.
FreshRun ==
    /\ pc = "start"
    /\ df_raw = NotRead
    /\ df_processed = Unset
    /\ ratios = NoRatios
    /\ api_key = "<None>"
    /\ clicked = FALSE
    /\ ai_result = NoneText
    /\ exc = ""
    /\ ui = <<>>
    /\ requests = 0
    /\ failures = <<>>

(***************************************************************************)
(* Uploaded spreadsheets.                                                  *)
(***************************************************************************)
\* The line items of a balance sheet, in sheet order.
MasterLabels ==
    << <<"TÀI", "SẢN", "NGẮN", "HẠN">>,
       <<"Hàng", "tồn", "kho">>,
       <<"Tài", "sản", "ngắn", "hạn", "khác">>,
       <<"TỔNG", "CỘNG", "TÀI", "SẢN">>,
       <<"NỢ", "NGẮN", "HẠN">>,
       <<"TỔNG", "CỘNG", "NGUỒN", "VỐN">>,
       <<"Doanh", "thu", "bán", "hàng", "và", "cung", "cấp", "dịch", "vụ">>,
       <<"Lợi", "nhuận", "sau", "thuế", "thu", "nhập", "doanh", "nghiệp">> >>

\* The rows of the sheet whose index is in S, in sheet order, with the
\* cells given by cells[i] = <<prior, current>>.
RECURSIVE SubSheet(_, _, _)
SubSheet(i, S, cells) ==
    IF i > Len(MasterLabels) THEN <<>>
    ELSE (IF i \in S
          THEN << [label |-> MasterLabels[i],
                   truoc |-> cells[i][1],
                   sau   |-> cells[i][2]] >>
          ELSE <<>>) \o SubSheet(i + 1, S, cells)

\* One sample sheet: a text cell, zero cells, two short-term-asset rows.
SampleCells ==
    << <<NumCell(2000), NumCell(5000)>>,
       <<NumCell(0),    NumCell(2000)>>,
       <<NumCell(5000), NumCell(2000)>>,
       <<NumCell(7000), NumCell(9000)>>,
       <<NumCell(2000), NumCell(0)>>,
       <<NumCell(7000), NumCell(9000)>>,
       <<TextCell,      NumCell(5000)>>,
       <<NumCell(2000), NumCell(2000)>> >>

WellFormed(rows) == [ncols |-> 3, strLabels |-> TRUE, rows |-> rows]

\* Files of the whole-script specification: any selection of line items of
\* the sample sheet, a sheet with a column missing, and a sheet whose first
\* column holds numbers.
ScriptFiles ==
    { WellFormed(SubSheet(1, S, SampleCells)) : S \in SUBSET (1..Len(MasterLabels)) }
    \cup { [ncols |-> 2, strLabels |-> TRUE,
            rows |-> SubSheet(1, {4, 6}, SampleCells)],
           [ncols |-> 3, strLabels |-> FALSE,
            rows |-> SubSheet(1, {4, 6}, SampleCells)] }

\* Files of the calculation specification: any selection of the five line
\* items the calculations look up.  Every cell of the two short-term-asset
\* rows, the total-assets row and the short-term-liabilities row is any
\* amount; the cells of the total-liabilities-and-equity row, which lines
\* 67-68 read and nothing uses, are those of the sample sheet.
CalcItems == {1, 3, 4, 5, 6}

FreeItems == {1, 3, 4, 5}

CellPairs == {<<NumCell(a), NumCell(b)>> : a \in Amounts, b \in Amounts}

IsCalcFile(f) ==
    \E S \in SUBSET CalcItems :
        \E c \in [S \cap FreeItems -> CellPairs] :
            f = WellFormed(SubSheet(1, S, c @@ SampleCells))

(***************************************************************************)
(* Actions of the script: one per statement group that renders or may      *)
(* raise.                                                                  *)
(***************************************************************************)
Raise(e, where) ==
    /\ exc' = e
    /\ failures' = Append(failures, [exc |-> e, at |-> where])
    /\ pc' = "except"

\* Lines 178, 277.
Start ==
    /\ pc = "start"
    /\ IF uploaded_file
       THEN pc' = "load" /\ ui' = ui
       ELSE pc' = "done" /\ ui' = Append(ui, "info:welcome")
    /\ UNCHANGED <<uploaded_file, file, df_raw, df_processed, ratios, api_key,
                   clicked, ai_result, exc, requests, failures, sent, runs>>

\* Line 180: pd.read_excel reads the sheet or raises on a file it cannot
\* parse.
Load ==
    /\ pc = "load"
    /\ \/ /\ df_raw' = file
          /\ pc' = "process"
          /\ UNCHANGED <<exc, failures>>
       \/ /\ \E e \in {"ValueError", "Exception"} : Raise(e, "load")
          /\ UNCHANGED df_raw
    /\ UNCHANGED <<uploaded_file, file, df_processed, ratios, api_key, clicked,
                   ai_result, ui, requests, sent, runs>>

\* Line 181.
Process ==
    /\ pc = "process"
    /\ LET res == process_financial_data(df_raw)
           raised == res.kind = "raise"
       IN  /\ ui' = ui \o res.ui
           /\ df_processed' = IF raised THEN df_processed ELSE res
           /\ exc' = IF raised THEN res.exc ELSE exc
           /\ failures' =
                IF raised
                THEN Append(failures, [exc |-> res.exc, at |-> "process"])
                ELSE failures
           /\ pc' = IF raised THEN "except" ELSE "display"
    /\ UNCHANGED <<uploaded_file, file, df_raw, ratios, api_key, clicked,
                   ai_result, requests, sent, runs>>

\* Lines 184-197.
Display ==
    /\ pc = "display"
    /\ IF IsNotNone(df_processed)
       THEN /\ ui' = ui \o <<"subheader:table", "dataframe">>
            /\ pc' = "ratios"
       ELSE /\ ui' = ui
            /\ pc' = "done"
    /\ UNCHANGED <<uploaded_file, file, df_raw, df_processed, ratios, api_key,
                   clicked, ai_result, exc, requests, failures, sent, runs>>

\* Lines 200-204.
Ratios ==
    /\ pc = "ratios"
    /\ LET res == calculate_financial_ratios(df_processed.rows)
       IN  /\ ratios' = [truoc |-> res.truoc, sau |-> res.sau]
           /\ ui' = ui \o res.ui \o <<"subheader:ai">>
    /\ pc' = "secret"
    /\ UNCHANGED <<uploaded_file, file, df_raw, df_processed, api_key, clicked,
                   ai_result, exc, requests, failures, sent, runs>>

\* Lines 208-211.
Secret ==
    /\ pc = "secret"
    /\ \E k \in Keys :
        /\ api_key' = k
        /\ IF Falsy(k)
           THEN ui' = Append(ui, "error:no_key") /\ pc' = "done"
           ELSE ui' = ui /\ pc' = "button"
    /\ UNCHANGED <<uploaded_file, file, df_raw, df_processed, ratios, clicked,
                   ai_result, exc, requests, failures, sent, runs>>

\* Line 213: the button is drawn; it returns True in the run its click
\* started.
Button ==
    /\ pc = "button"
    /\ ui' = Append(ui, "button")
    /\ \E c \in BOOLEAN :
        /\ clicked' = c
        /\ pc' = IF c THEN "ai" ELSE "done"
    /\ UNCHANGED <<uploaded_file, file, df_raw, df_processed, ratios, api_key,
                   ai_result, exc, requests, failures, sent, runs>>

\* Lines 214-217: the call of get_ai_analysis, all of the function, and the
\* test of its result.
GetAiAnalysis ==
    /\ pc = "ai"
    /\ IF ~(CanFormat2f(ratios.truoc) /\ CanFormat2f(ratios.sau))
       THEN \* lines 141-142 raise ValueError before the request is made
            /\ failures' = Append(failures, [exc |-> "ValueError", at |-> "ai"])
            /\ ui' = Append(ui, AiHandler("ValueError"))
            /\ ai_result' = NoneText
            /\ pc' = "done"
            /\ UNCHANGED <<requests, sent, exc>>
       ELSE
            /\ sent' = sent \cup
                 { [df |-> df_processed.rows, ratios |-> ratios,
                    key |-> api_key,
                    prompt |-> BuildPrompt(df_processed.rows, ratios)] }
            /\ requests' = requests + 1
            /\ \E o \in Outcomes :
                IF o.kind = "text"
                THEN /\ ai_result' = o.text
                     /\ pc' = IF Truthy(o.text) THEN "dashboard1" ELSE "done"
                     /\ UNCHANGED <<ui, failures, exc>>
                ELSE IF AiHandler(o.exc) # ""
                THEN /\ failures' = Append(failures, [exc |-> o.exc, at |-> "ai"])
                     /\ ui' = Append(ui, AiHandler(o.exc))
                     /\ ai_result' = NoneText
                     /\ pc' = "done"
                     /\ UNCHANGED exc
                ELSE /\ Raise(o.exc, "ai")
                     /\ UNCHANGED <<ui, ai_result>>
    /\ UNCHANGED <<uploaded_file, file, df_raw, df_processed, ratios, api_key,
                   clicked, runs>>

\* Lines 219-232: the first row of metric tiles, inside its own try.
Dashboard1 ==
    /\ pc = "dashboard1"
    /\ LET rows == df_processed.rows
           found == /\ SelectRows(rows, TongTaiSan) # <<>>
                    /\ SelectRows(rows, DoanhThuBanHang) # <<>>
                    /\ SelectRows(rows, LoiNhuanSauThue) # <<>>
       IN  IF found
           THEN /\ ui' = ui \o <<"subheader:dashboard", "metric:total_assets",
                                 "metric:revenue", "metric:profit">>
                /\ UNCHANGED failures
           ELSE /\ ui' = ui \o <<"subheader:dashboard", "warning:dashboard">>
                /\ failures' =
                     Append(failures, [exc |-> "IndexError", at |-> "dashboard1"])
    /\ pc' = "dashboard2"
    /\ UNCHANGED <<uploaded_file, file, df_raw, df_processed, ratios, api_key,
                   clicked, ai_result, exc, requests, sent, runs>>

\* Lines 235-238: the second row of metric tiles, outside any inner try.
Dashboard2 ==
    /\ pc = "dashboard2"
    /\ IF SelectRows(df_processed.rows, TaiSanNganHan) = <<>>
       THEN \* line 237: .iloc[0] of an empty selection
            /\ ui' = Append(ui, "metric:revenue_growth")
            /\ Raise("IndexError", "dashboard2")
       ELSE IF ~CanFormat2f(ratios.sau)
       THEN \* line 238: format code 'f' on a str
            /\ ui' = ui \o <<"metric:revenue_growth", "metric:tsnh_share">>
            /\ Raise("ValueError", "dashboard2")
       ELSE /\ ui' = ui \o <<"metric:revenue_growth", "metric:tsnh_share",
                             "metric:current_ratio">>
            /\ pc' = "narrative"
            /\ UNCHANGED <<exc, failures>>
    /\ UNCHANGED <<uploaded_file, file, df_raw, df_processed, ratios, api_key,
                   clicked, ai_result, requests, sent, runs>>

\* Lines 242-243.
Narrative ==
    /\ pc = "narrative"
    /\ ui' = ui \o <<"subheader:narrative", "markdown">>
    /\ pc' = "charts"
    /\ UNCHANGED <<uploaded_file, file, df_raw, df_processed, ratios, api_key,
                   clicked, ai_result, exc, requests, failures, sent, runs>>

\* Lines 246-269: the pie chart (or its placeholder) and the two bar charts.
Charts ==
    /\ pc = "charts"
    /\ LET pie_data == SelectSeq(df_processed.rows,
                                 LAMBDA r : r.label \in PieLabels)
       IN  ui' = ui \o <<"subheader:charts">>
                    \o (IF pie_data # <<>> THEN <<"chart:pie">>
                                           ELSE <<"info:no_pie">>)
                    \o <<"chart:growth", "chart:comparison">>
    /\ pc' = "done"
    /\ UNCHANGED <<uploaded_file, file, df_raw, df_processed, ratios, api_key,
                   clicked, ai_result, exc, requests, failures, sent, runs>>

\* Lines 272-275: the two except clauses of the top-level try.
Except ==
    /\ pc = "except"
    /\ IF TopLevelHandler(exc) # ""
       THEN ui' = Append(ui, TopLevelHandler(exc)) /\ pc' = "done"
       ELSE ui' = ui /\ pc' = "crashed"
    /\ UNCHANGED <<uploaded_file, file, df_raw, df_processed, ratios, api_key,
                   clicked, ai_result, exc, requests, failures, sent, runs>>

\* A widget interaction reruns the script from the top; the uploaded file and
\* the session stay.
Rerun ==
    /\ pc = "done"
    /\ runs < MaxRuns
    /\ runs' = runs + 1
    /\ pc' = "start"
    /\ df_raw' = NotRead
    /\ df_processed' = Unset
    /\ ratios' = NoRatios
    /\ api_key' = "<None>"
    /\ clicked' = FALSE
    /\ ai_result' = NoneText
    /\ exc' = ""
    /\ ui' = <<>>
    /\ requests' = 0
    /\ failures' = <<>>
    /\ UNCHANGED <<uploaded_file, file, sent>>

Init ==
    /\ \/ uploaded_file = TRUE /\ file \in ScriptFiles
       \/ uploaded_file = FALSE /\ file = WellFormed(<<>>)
    /\ FreshRun
    /\ sent = {}
    /\ runs = 1

Next ==
    \/ Start
    \/ Load
    \/ Process
    \/ Display
    \/ Ratios
    \/ Secret
    \/ Button
    \/ GetAiAnalysis
    \/ Dashboard1
    \/ Dashboard2
    \/ Narrative
    \/ Charts
    \/ Except
    \/ Rerun

Spec == Init /\ [][Next]_vars

\* The steps of one run.  The interpreter executes a started run statement
\* after statement until it ends; whether a rerun follows is up to the user.
Step ==
    \/ Start
    \/ Load
    \/ Process
    \/ Display
    \/ Ratios
    \/ Secret
    \/ Button
    \/ GetAiAnalysis
    \/ Dashboard1
    \/ Dashboard2
    \/ Narrative
    \/ Charts
    \/ Except

FairSpec == Init /\ [][Next]_vars /\ WF_vars(Step)

\* The two calculations alone, on every sheet IsCalcFile admits.
InitCalc ==
    /\ uploaded_file = TRUE
    /\ IsCalcFile(file)
    /\ FreshRun
    /\ sent = {}
    /\ runs = 1

NextCalc ==
    \/ Start
    \/ Load
    \/ Process
    \/ Display
    \/ Ratios

SpecCalc == InitCalc /\ [][NextCalc]_vars

(***************************************************************************)
(* Properties.                                                             *)
(***************************************************************************)
InUi(e) == \E i \in DOMAIN ui : ui[i] = e

CountUi(S) == Cardinality({i \in DOMAIN ui : ui[i] \in S})

MetricTiles ==
    {"metric:total_assets", "metric:revenue", "metric:profit",
     "metric:revenue_growth", "metric:tsnh_share", "metric:current_ratio"}

ChartElements == {"chart:pie", "chart:growth", "chart:comparison"}

HandlerMessages ==
    {"error:structure", "error:unexpected", "error:invalid_key",
     "error:gemini", "warning:dashboard"}

\* The rows of the processed table.
PRows == df_processed.rows

HasRow(rows, alternatives) ==
    \E i \in DOMAIN rows : Matches(rows[i].label, alternatives)

\* The first row, in table order, whose label matches.
FirstMatch(rows, alternatives) ==
    rows[CHOOSE i \in DOMAIN rows :
            /\ Matches(rows[i].label, alternatives)
            /\ \A j \in 1..(i - 1) : ~Matches(rows[j].label, alternatives)]

RECURSIVE SumNums(_)
SumNums(xs) == IF xs = <<>> THEN Zero ELSE FloatAdd[Head(xs), SumNums(Tail(xs))]

SumTruoc == SumNums([i \in DOMAIN PRows |-> PRows[i].truoc])
SumSau == SumNums([i \in DOMAIN PRows |-> PRows[i].sau])
SumTyTrongTruoc == SumNums([i \in DOMAIN PRows |-> PRows[i].ty_trong_truoc])
SumTyTrongSau == SumNums([i \in DOMAIN PRows |-> PRows[i].ty_trong_sau])

\* A processed table whose first total-assets row and first
\* total-liabilities-and-equity row hold non-zero values in both periods.
ValidAnchors ==
    /\ df_processed.kind = "df"
    /\ FirstMatch(PRows, TongTaiSan).truoc.n # 0
    /\ FirstMatch(PRows, TongTaiSan).sau.n # 0
    /\ FirstMatch(PRows, TongNguonVon).truoc.n # 0
    /\ FirstMatch(PRows, TongNguonVon).sau.n # 0

\* C1 as stated: with valid anchor rows, the prior-year composition
\* percentages of all rows sum to 100, and so do the current-year ones.
C1_SharesSumTo100 ==
    ValidAnchors => SumTyTrongTruoc = Hundred /\ SumTyTrongSau = Hundred

\* C1 as amended: with valid anchor rows, each row's composition percentage
\* of a period is 100 * value / (value of the first total-assets row) of that
\* period, so the first total-assets row itself stands at 100 and the
\* percentages of all rows sum to 100 * (sum of all values) / total assets.
C1_SharesOfTotalAssets ==
    ValidAnchors =>
        LET tts == FirstMatch(PRows, TongTaiSan)
        IN  /\ \A i \in DOMAIN PRows :
                 /\ FloatMul[PRows[i].ty_trong_truoc, tts.truoc]
                      = FloatMul[Hundred, PRows[i].truoc]
                 /\ FloatMul[PRows[i].ty_trong_sau, tts.sau]
                      = FloatMul[Hundred, PRows[i].sau]
            /\ tts.ty_trong_truoc = Hundred
            /\ tts.ty_trong_sau = Hundred
            /\ FloatMul[SumTyTrongTruoc, tts.truoc] = FloatMul[Hundred, SumTruoc]
            /\ FloatMul[SumTyTrongSau, tts.sau] = FloatMul[Hundred, SumSau]

C1_Witness ==
    /\ ValidAnchors
    /\ Len(PRows) >= 4
    /\ FirstMatch(PRows, TongTaiSan).truoc
         # FirstMatch(PRows, TongTaiSan).sau
    /\ SumTyTrongTruoc # Hundred
    /\ SumTyTrongTruoc # SumTyTrongSau

\* C5: a row with prior 0 and current > 0 gets a finite, strictly positive
\* growth, namely 100 * current / 1e-9, and the computation raises nothing; a
\* row with non-zero prior gets 100 * (current - prior) / prior.
C5_GrowthFiniteAndExact ==
    /\ df_raw.ncols = 3 /\ df_raw.strLabels
         => \A e \in DOMAIN failures : failures[e].at # "process"
    /\ \A i \in DOMAIN PRows :
        LET r == PRows[i]
        IN  /\ r.truoc.n = 0 /\ r.sau.n > 0
                 => /\ IsFinite(r.tang_truong)
                    /\ r.tang_truong.n > 0
                    /\ FloatMul[r.tang_truong, Epsilon] = FloatMul[Hundred, r.sau]
            /\ r.truoc.n # 0
                 => /\ IsFinite(r.tang_truong)
                    /\ FloatMul[r.tang_truong, r.truoc]
                         = FloatMul[Hundred, FloatSub[r.sau, r.truoc]]

C5_Witness ==
    /\ df_processed.kind = "df"
    /\ \E i \in DOMAIN PRows :
        /\ PRows[i].truoc.n = 0
        /\ PRows[i].sau = FromInt(5000)
        /\ PRows[i].tang_truong.k = 1
    /\ \E i \in DOMAIN PRows :
        PRows[i].truoc.n # 0 /\ PRows[i].tang_truong.n < 0

\* C6: with a short-term-assets row and a short-term-liabilities row, the
\* ratio of each period is the first short-term-assets value divided by the
\* first short-term-liabilities value of that period, and 0 when that
\* divisor is 0; nothing is raised and no warning is shown.
C6_CurrentRatioPerPeriod ==
    /\ pc = "secret"
    /\ HasRow(PRows, TaiSanNganHan)
    /\ HasRow(PRows, NoNganHan)
    => LET a == FirstMatch(PRows, TaiSanNganHan)
           b == FirstMatch(PRows, NoNganHan)
       IN  /\ ratios.truoc.t = "num"
           /\ ratios.sau.t = "num"
           /\ b.truoc.n # 0 => FloatMul[ratios.truoc.x, b.truoc] = a.truoc
           /\ b.truoc.n = 0 => ratios.truoc.x = Zero
           /\ b.sau.n # 0 => FloatMul[ratios.sau.x, b.sau] = a.sau
           /\ b.sau.n = 0 => ratios.sau.x = Zero
           /\ ~InUi("warning:missing_short_term")
           /\ failures = <<>>

C6_Witness ==
    /\ pc = "secret"
    /\ Len(SelectRows(PRows, TaiSanNganHan)) = 2
    /\ SelectRows(PRows, TaiSanNganHan)[1].truoc
         # SelectRows(PRows, TaiSanNganHan)[2].truoc
    /\ HasRow(PRows, NoNganHan)
    /\ FirstMatch(PRows, NoNganHan).truoc.n # 0
    /\ FirstMatch(PRows, NoNganHan).sau.n = 0
    /\ FirstMatch(PRows, TaiSanNganHan).sau.n # 0
    /\ ratios.truoc.x.d = 2
    /\ ratios.sau.x = Zero

\* The uploaded sheet has no total-assets row or no
\* total-liabilities-and-equity row.
MissingAnchor ==
    /\ uploaded_file
    /\ \/ ~HasRow(file.rows, TongTaiSan)
       \/ ~HasRow(file.rows, TongNguonVon)

\* C2: without an anchor row process_financial_data returns no table, an
\* error is shown, and the run displays no table, computes no ratio, makes no
\* request and renders no tile, narrative or chart.
C2_MissingAnchorStops ==
    MissingAnchor =>
        /\ df_processed.kind # "df"
        /\ ratios = NoRatios
        /\ requests = 0
        /\ CountUi(MetricTiles \cup ChartElements
                   \cup {"dataframe", "button", "markdown"}) = 0
        /\ pc \in {"display", "done"} /\ df_raw = file
              /\ file.ncols = 3 /\ file.strLabels
              => df_processed.kind = "None" /\ InUi("error:missing_total")
        /\ pc = "done"
              => CountUi({"error:missing_total", "error:structure",
                          "error:unexpected"}) = 1

C2_Witness ==
    /\ MissingAnchor
    /\ pc = "done"
    /\ df_processed.kind = "None"
    /\ HasRow(file.rows, TongTaiSan)
    /\ HasRow(file.rows, TaiSanNganHan)
    /\ HasRow(file.rows, NoNganHan)

\* C3 as stated: without a short-term row both ratios are 'N/A' with a
\* warning, and the run goes on: once the button is clicked with a key the
\* request is sent.
C3_PlaceholdersDoNotAbort ==
    /\ df_processed.kind = "df"
    /\ \/ ~HasRow(PRows, TaiSanNganHan)
       \/ ~HasRow(PRows, NoNganHan)
    => /\ pc \notin {"display", "ratios"}
            => /\ ratios.truoc = PyStr("N/A")
               /\ ratios.sau = PyStr("N/A")
               /\ InUi("warning:missing_short_term")
       /\ pc = "done" /\ clicked /\ api_key \in {"key-1", "key-2"}
            => requests = 1

AiFailures == {i \in DOMAIN failures : failures[i].at = "ai"}

\* C4: a failure of get_ai_analysis shows exactly one message, the invalid-key
\* message for InvalidArgument and the generic one for anything else; the
\* function returns None, at most one request was made and no narrative is
\* rendered.
C4_DistinctFailureMessages ==
    \A i \in AiFailures :
        /\ Cardinality(AiFailures) = 1
        /\ CountUi({"error:invalid_key", "error:gemini"}) = 1
        /\ InUi("error:invalid_key") <=> failures[i].exc = "InvalidArgument"
        /\ InUi("error:gemini") <=> failures[i].exc # "InvalidArgument"
        /\ ai_result = "<None>"
        /\ requests <= 1
        /\ ~InUi("markdown")
        /\ pc = "done"

C4_Witness ==
    /\ failures = << [exc |-> "InvalidArgument", at |-> "ai"] >>
    /\ requests = 1
    /\ InUi("error:invalid_key")
    /\ runs = 2
    /\ \E x \in sent : x.key # api_key

\* C7: without a key in the secret store the run shows an error and stops:
\* no button, no call of get_ai_analysis, no request.
C7_NoKeyNoRequest ==
    /\ requests > 0 \/ InUi("button") \/ pc = "ai"
          => api_key # "<None>" /\ api_key # ""
    /\ InUi("subheader:ai") /\ pc # "secret"
          /\ (api_key = "<None>" \/ api_key = "")
          => /\ InUi("error:no_key")
             /\ pc = "done"
             /\ ~InUi("button")
             /\ requests = 0

C7_Witness ==
    /\ InUi("error:no_key")
    /\ api_key = "<None>"
    /\ pc = "done"
    /\ ratios.truoc.t = "num"

FailuresShown ==
    /\ pc # "crashed"
    /\ pc = "done" => CountUi(HandlerMessages) = Len(failures)
    /\ pc = "done" /\ exc # ""
          => CountUi({"error:structure", "error:unexpected"}) = 1

\* C9: every run ends waiting for new input; no exception escapes the
\* top-level handler and every exception raised in the run has been turned
\* into a message by then.
C9_AllFailuresCaught ==
    /\ []FailuresShown
    /\ (pc # "done") ~> (pc = "done")

C9_Witness ==
    /\ pc = "done"
    /\ failures = << [exc |-> "AttributeError", at |-> "process"] >>
    /\ InUi("error:unexpected")

\* C10: tiles, narrative and charts appear only when the table exists, a key
\* is present, the button was clicked and get_ai_analysis returned non-empty
\* text; a run makes at most one request.
C10_RenderOnlyWithNarrative ==
    /\ requests <= 1
    /\ CountUi(MetricTiles \cup ChartElements \cup {"markdown"}) > 0
          => /\ df_processed.kind = "df"
             /\ api_key # "<None>" /\ api_key # ""
             /\ clicked
             /\ ai_result # "<None>" /\ ai_result # ""
             /\ requests = 1
    /\ ~clicked \/ ai_result = "<None>" \/ ai_result = ""
          => CountUi(MetricTiles \cup ChartElements \cup {"markdown"}) = 0

C10_Witness ==
    /\ pc = "done"
    /\ InUi("metric:profit")
    /\ InUi("metric:current_ratio")
    /\ InUi("markdown")
    /\ CountUi(ChartElements) = 3

=============================================================================
